---- MODULE Spec2Model ----
(***************************************************************************)
(* A model of web-fetch (src/tools/web-fetch/lib/web_fetch/main.py): the   *)
(* size parser, the bounded streaming fetcher and its error mapping, the   *)
(* decompressor, the renderer (classification, decoding, JSON and HTML     *)
(* bodies, truncation), and main()'s batch loop.                           *)
(*                                                                         *)
(* Python strings the code takes apart (sizes, header arguments, output    *)
(* paths) are sequences of one-character strings; content types are        *)
(* sequences of tokens, so that startswith is the prefix relation.  Bytes  *)
(* are records of their length and wire format.                            *)
(***************************************************************************)
EXTENDS Integers, Sequences, FiniteSets, TLC

VARIABLES
    args,         \* argparse's namespace: urls, custom_headers, max_size, output, json, headers, raw
    pc,           \* position in main() / fetch_url()
    headers,      \* main(): the parsed custom headers (name -> value)
    max_size,     \* main(): parse_size(args.max_size)
    i,            \* main(): 1-based position of the URL of the current iteration
    results,      \* main(): the formatted results
    errors,       \* main(): the error lines
    request,      \* fetch_url(): the Request object, NoValue before it is built
    response,     \* fetch_url(): the open response, NoValue when none
    unread,       \* the transport: bytes of the body not yet read
    chunk,        \* fetch_url(): the chunk just read (its length)
    total_size,   \* fetch_url(): total_size
    content,      \* fetch_url(): bytes written to the BytesIO
    result,       \* main(): the FetchResult of the current iteration
    net,          \* the URL positions for which urlopen was called, in order
    files,        \* the file system: path -> bytes written
    writes,       \* the paths opened for writing, in order
    out,          \* what was printed, in order, to either stream
    exit_status,  \* the process's exit status, NoStatus while it runs
    size_str,     \* parse_size's argument (size-parser specification)
    size_res,     \* parse_size's outcome (size-parser specification)
    call,         \* the function call under test (function specification)
    ret           \* that call's outcome, NoValue before it is made

vars == <<args, pc, headers, max_size, i, results, errors, request, response,
          unread, chunk, total_size, content, result, net, files, writes, out,
          exit_status, size_str, size_res, call, ret>>

-----------------------------------------------------------------------------
(* Bounds of the model. *)

\* The longest batch of URLs.
MaxUrls == 3

\* The longest size string enumerated over SizeAlphabet.
MaxLen == 3

-----------------------------------------------------------------------------
(* Python values and strings. *)

NoValue == [kind |-> "None"]

NoStatus == -1

Min(a, b) == IF a <= b THEN a ELSE b

\* 10 ** n
RECURSIVE Pow10(_)
Pow10(n) == IF n = 0 THEN 1 ELSE 10 * Pow10(n - 1)

\* Sequences over S of length lo..hi.
SeqsUpTo(S, lo, hi) == UNION {[1..n -> S] : n \in lo..hi}

Digits == <<"0", "1", "2", "3", "4", "5", "6", "7", "8", "9">>

IsDigit(c) == \E d \in 1..10 : Digits[d] = c

DigitVal(c) == (CHOOSE d \in 1..10 : Digits[d] = c) - 1

IsSpace(c) == c \in {" ", "\t", "\n"}

\* str.upper(), on the letters size strings are written with.
UpperChar(c) ==
    CASE c = "k" -> "K" [] c = "m" -> "M" [] c = "g" -> "G" [] c = "b" -> "B"
      [] c = "i" -> "I" [] c = "n" -> "N" [] c = "f" -> "F" [] c = "a" -> "A"
      [] c = "o" -> "O" [] c = "u" -> "U" [] c = "s" -> "S"
      [] OTHER -> c

upper(s) == [k \in 1..Len(s) |-> UpperChar(s[k])]

RECURSIVE lstrip(_)
lstrip(s) == IF s # <<>> /\ IsSpace(Head(s)) THEN lstrip(Tail(s)) ELSE s

RECURSIVE rstrip(_)
rstrip(s) ==
    IF s # <<>> /\ IsSpace(s[Len(s)]) THEN rstrip(SubSeq(s, 1, Len(s) - 1)) ELSE s

strip(s) == rstrip(lstrip(s))

endswith(s, suffix) ==
    /\ Len(suffix) <= Len(s)
    /\ SubSeq(s, Len(s) - Len(suffix) + 1, Len(s)) = suffix

startswith(s, prefix) ==
    /\ Len(prefix) <= Len(s)
    /\ SubSeq(s, 1, Len(prefix)) = prefix

\* The decimal value of a sequence of digits.
RECURSIVE DigitsValue(_)
DigitsValue(s) ==
    IF s = <<>> THEN 0
    ELSE 10 * DigitsValue(SubSeq(s, 1, Len(s) - 1)) + DigitVal(s[Len(s)])

AllDigits(s) == \A k \in 1..Len(s) : IsDigit(s[k])

\* A leading sign, split off: <<negative, rest>>.
SplitSign(s) ==
    IF s # <<>> /\ Head(s) \in {"-", "+"} THEN <<Head(s) = "-", Tail(s)>>
    ELSE <<FALSE, s>>

(* int(str): surrounding whitespace, an optional sign, one or more digits. *)
(* A record [ok, value]; ok = FALSE is Python's ValueError.                *)
pyint(s) ==
    LET t == SplitSign(strip(s))
        d == t[2]
    IN  IF d # <<>> /\ AllDigits(d)
        THEN [ok |-> TRUE, value |-> IF t[1] THEN 0 - DigitsValue(d) ELSE DigitsValue(d)]
        ELSE [ok |-> FALSE, value |-> 0]

(* float(str): surrounding whitespace, an optional sign, then "inf",       *)
(* "infinity", "nan" (any case; the caller has upper-cased) or digits with *)
(* at most one decimal point and at least one digit.  A finite value is    *)
(* mant / 10^scale.  ok = FALSE is Python's ValueError.  Exponents and     *)
(* digit-group underscores are outside the strings enumerated here.        *)
pyfloat(s) ==
    LET t == SplitSign(strip(s))
        d == t[2]
        dots == {k \in 1..Len(d) : d[k] = "."}
        bad == [ok |-> FALSE, kind |-> "none", neg |-> FALSE, mant |-> 0, scale |-> 0]
    IN  IF d \in {<<"I", "N", "F">>, <<"I", "N", "F", "I", "N", "I", "T", "Y">>}
        THEN [ok |-> TRUE, kind |-> "inf", neg |-> t[1], mant |-> 0, scale |-> 0]
        ELSE IF d = <<"N", "A", "N">>
        THEN [ok |-> TRUE, kind |-> "nan", neg |-> t[1], mant |-> 0, scale |-> 0]
        ELSE IF Cardinality(dots) = 0
        THEN IF d # <<>> /\ AllDigits(d)
             THEN [ok |-> TRUE, kind |-> "finite", neg |-> t[1],
                   mant |-> DigitsValue(d), scale |-> 0]
             ELSE bad
        ELSE IF Cardinality(dots) = 1
        THEN LET p == CHOOSE k \in dots : TRUE
                 whole == SubSeq(d, 1, p - 1)
                 frac == SubSeq(d, p + 1, Len(d))
             IN  IF AllDigits(whole) /\ AllDigits(frac) /\ Len(whole) + Len(frac) > 0
                 THEN [ok |-> TRUE, kind |-> "finite", neg |-> t[1],
                       mant |-> DigitsValue(whole \o frac), scale |-> Len(frac)]
                 ELSE bad
        ELSE bad

(* int(num * multiplier) for a float num: truncation toward zero of a      *)
(* finite product, OverflowError for an infinity, ValueError for a NaN.    *)
(* The multipliers are powers of two, so the float product is exact and    *)
(* the truncation is that of the decimal value for the short strings here. *)
int_of_product(num, multiplier) ==
    IF num.kind = "inf" THEN [kind |-> "raise", cls |-> "OverflowError", value |-> 0]
    ELSE IF num.kind = "nan" THEN [kind |-> "raise", cls |-> "ValueError", value |-> 0]
    ELSE LET q == (num.mant * multiplier) \div Pow10(num.scale)
         IN  [kind |-> "return", cls |-> "", value |-> IF num.neg THEN 0 - q ELSE q]

-----------------------------------------------------------------------------
(* parse_size *)

\* The dict literal, in insertion order, which is the order .items() yields.
multipliers ==
    << <<<<"K">>, 1024>>,
       <<<<"K", "B">>, 1024>>,
       <<<<"M">>, 1024 * 1024>>,
       <<<<"M", "B">>, 1024 * 1024>>,
       <<<<"G">>, 1024 * 1024 * 1024>>,
       <<<<"G", "B">>, 1024 * 1024 * 1024>> >>

\* The for loop from entry k on, then the plain int() path.
RECURSIVE parse_size_from(_, _)
parse_size_from(s, k) ==
    IF k > Len(multipliers)
    THEN LET n == pyint(s)
         IN  IF n.ok THEN [kind |-> "return", cls |-> "", value |-> n.value]
             ELSE [kind |-> "raise", cls |-> "ValueError", value |-> 0]
    ELSE LET suffix == multipliers[k][1]
             multiplier == multipliers[k][2]
         IN  IF endswith(s, suffix)
             THEN LET num == pyfloat(SubSeq(s, 1, Len(s) - Len(suffix)))
                      r == int_of_product(num, multiplier)
                  IN  IF ~num.ok THEN parse_size_from(s, k + 1)
                      ELSE IF r.kind = "raise" /\ r.cls = "ValueError"
                      THEN parse_size_from(s, k + 1)
                      ELSE r
             ELSE parse_size_from(s, k + 1)

parse_size(size_str_arg) == parse_size_from(upper(strip(size_str_arg)), 1)

-----------------------------------------------------------------------------
(* Exceptions: Python's classes, as far as the except clauses tell them    *)
(* apart.                                                                  *)

ParentClass(cls) ==
    CASE cls = "HTTPError" -> "URLError"
      [] cls = "URLError" -> "OSError"
      [] cls = "BadGzipFile" -> "OSError"
      [] cls = "TimeoutError" -> "OSError"
      [] cls = "OSError" -> "Exception"
      [] cls = "UnicodeDecodeError" -> "UnicodeError"
      [] cls = "UnicodeError" -> "ValueError"
      [] cls = "JSONDecodeError" -> "ValueError"
      [] cls = "ValueError" -> "Exception"
      [] cls = "RecursionError" -> "RuntimeError"
      [] cls = "RuntimeError" -> "Exception"
      [] cls = "OverflowError" -> "ArithmeticError"
      [] cls = "ArithmeticError" -> "Exception"
      [] cls = "LookupError" -> "Exception"
      [] cls = "zlib.error" -> "Exception"
      [] cls = "EOFError" -> "Exception"
      [] OTHER -> "BaseException"

RECURSIVE isinstance(_, _)
isinstance(cls, base) ==
    IF cls = base THEN TRUE
    ELSE IF cls = "BaseException" THEN FALSE
    ELSE isinstance(ParentClass(cls), base)

\* str(n) for n >= 0
RECURSIVE pystr(_)
pystr(n) == IF n < 10 THEN <<Digits[n + 1]>> ELSE pystr(n \div 10) \o <<Digits[(n % 10) + 1]>>

Raise(cls, msg) == [kind |-> "raise", cls |-> cls, msg |-> msg]

Return(v) == [kind |-> "return", value |-> v]

-----------------------------------------------------------------------------
(* Bytes and the decompressor. *)

(* len bytes in wire format fmt; plain is the length of what they inflate   *)
(* to; doc is what the renderer can find out about them (PlainText: ASCII  *)
(* text that is neither JSON nor HTML).                                    *)
PlainText ==
    [cls |-> "ascii", syntax |-> "text", pretty |-> 0, title |-> 0, desc |-> 0, visible |-> 0]

Bytes(fmt, len, plain) == [fmt |-> fmt, len |-> len, plain |-> plain, doc |-> PlainText]

\* n bytes that are the document doc.
Body(doc, n) == [fmt |-> "identity", len |-> n, plain |-> n, doc |-> doc]

Plain(n) == Bytes("identity", n, n)

\* body, compressed to len bytes in wire format fmt.
Compressed(fmt, len, body) == [fmt |-> fmt, len |-> len, plain |-> body.len, doc |-> body.doc]

\* gzip.decompress
gzip_decompress(b) ==
    IF b.len = 0 THEN Return(Body(b.doc, 0))
    ELSE IF b.fmt = "gzip" THEN Return(Body(b.doc, b.plain))
    ELSE IF b.fmt = "gzip_truncated" THEN Raise("EOFError", "truncated")
    ELSE Raise("BadGzipFile", "not gzipped")

\* zlib.decompress(content): a zlib-wrapped stream
zlib_decompress(b) ==
    IF b.fmt = "zlib" /\ b.len > 0 THEN Return(Body(b.doc, b.plain))
    ELSE Raise("zlib.error", "header")

\* zlib.decompress(content, -zlib.MAX_WBITS): a raw deflate stream
zlib_decompress_raw(b) ==
    IF b.fmt = "raw_deflate" /\ b.len > 0 THEN Return(Body(b.doc, b.plain))
    ELSE Raise("zlib.error", "raw")

\* A deflate branch that makes one attempt only.
decompress_content_once(content_arg, encoding) ==
    IF encoding = "gzip" THEN gzip_decompress(content_arg)
    ELSE IF encoding = "deflate" THEN zlib_decompress(content_arg)
    ELSE Return(content_arg)

\* Lines 53-63.
decompress_content(content_arg, encoding) ==
    IF encoding = "gzip" THEN gzip_decompress(content_arg)
    ELSE IF encoding = "deflate"
    THEN LET r == zlib_decompress(content_arg)
         IN  IF r.kind = "raise" /\ isinstance(r.cls, "zlib.error")
             THEN zlib_decompress_raw(content_arg)
             ELSE r
    ELSE Return(content_arg)

\* str.lower(), on the Content-Encoding values of the model.
lower(e) == CASE e = "GZIP" -> "gzip" [] e = "Deflate" -> "deflate" [] OTHER -> e

-----------------------------------------------------------------------------
(* fetch_url: the parts that are functions of their arguments. *)

chunk_size == 8192

\* A size check that tolerates one chunk beyond the limit.
exceeds_late(total, max_size_arg) == total > max_size_arg + chunk_size

\* A check that already fires when the total reaches the limit.
exceeds_at(total, max_size_arg) == total >= max_size_arg

\* Line 124: the check made on the running total, before the chunk is written.
exceeds(total, max_size_arg) == total > max_size_arg

\* A scheme check that lets ftp through.
BadScheme_ftp(url) == url.scheme \notin {"http", "https", "ftp"}

\* urlparse(url).scheme not in ("http", "https")
BadScheme(url) == url.scheme \notin {"http", "https"}

(* urllib's exceptions.  The reason of a URLError, and the reason phrase    *)
(* of an HTTPError, are sequences of words; `w in str(reason).lower()` is  *)
(* the presence of w among the lowered words.                              *)
URLErr(reason) ==
    [kind |-> "raise", cls |-> "URLError", msg |-> "urlopen error", reason |-> reason]

HTTPErr(code, reason) ==
    [kind |-> "raise", cls |-> "HTTPError", msg |-> "HTTP Error", code |-> code,
     reason |-> reason]

\* str.lower(), on the words of the model.
lower_word(w) ==
    CASE w = "Timed Out" -> "timed out" [] w = "SSL" -> "ssl" [] OTHER -> w

contains(reason, w) == \E k \in DOMAIN reason : lower_word(reason[k]) = w

\* An order of the tests that looks for "ssl" first.
fetch_except_ssl_first(e) ==
    IF isinstance(e.cls, "HTTPError")
    THEN [kind |-> "raise", cls |-> "RuntimeError", msg |-> "HTTP status",
          code |-> e.code, reason |-> e.reason]
    ELSE IF isinstance(e.cls, "URLError")
    THEN IF contains(e.reason, "ssl") THEN Raise("RuntimeError", "SSL error")
         ELSE IF contains(e.reason, "timed out") THEN Raise("RuntimeError", "Request timed out")
         ELSE Raise("RuntimeError", "Network error")
    ELSE IF isinstance(e.cls, "OSError") THEN Raise("RuntimeError", "Connection error")
    ELSE e

(* Lines 158-171: the except clauses of fetch_url, in their order, applied *)
(* to an exception raised inside its try block.  The message of the HTTP   *)
(* error carries e.code and e.reason.                                      *)
fetch_except(e) ==
    IF isinstance(e.cls, "HTTPError")
    THEN [kind |-> "raise", cls |-> "RuntimeError", msg |-> "HTTP status",
          code |-> e.code, reason |-> e.reason]
    ELSE IF isinstance(e.cls, "URLError")
    THEN IF contains(e.reason, "timed out") THEN Raise("RuntimeError", "Request timed out")
         ELSE IF contains(e.reason, "ssl") THEN Raise("RuntimeError", "SSL error")
         ELSE Raise("RuntimeError", "Network error")
    ELSE IF isinstance(e.cls, "OSError") THEN Raise("RuntimeError", "Connection error")
    ELSE e

\* The Content-Type header, split on ";": the main type and the charset.
ParseContentType(hdr) ==
    LET ct == IF hdr = NoValue
              THEN [main |-> <<"application/", "octet-stream">>, params |-> <<>>]
              ELSE hdr
        cs == {k \in 1..Len(ct.params) : ct.params[k][1] = "charset="}
    IN  [ct_main |-> ct.main,
         charset |-> IF cs = {} THEN "utf-8"
                     ELSE ct.params[CHOOSE k \in cs : \A j \in cs : k <= j][2]]

\* dict(response.headers), in sorted order: pairs of token sequences.
ResponseHeaders(resp) ==
    (IF resp.encoding # "" THEN << << <<"Content-Encoding">>, <<resp.encoding>> >> >> ELSE <<>>)
    \o (IF resp.content_type # NoValue
        THEN << << <<"Content-Type">>,
                   resp.content_type.main
                   \o (IF resp.content_type.params = <<>> THEN <<>>
                       ELSE <<"; ">> \o resp.content_type.params[1]) >> >>
        ELSE <<>>)

(* Lines 129-156: what fetch_url does with the body once it is read: the   *)
(* decompression, the header parsing and the FetchResult.                  *)
fetch_finish(url_pos, resp, content_bytes) ==
    LET encoding == lower(resp.encoding)
        body == IF encoding # "" THEN decompress_content(content_bytes, encoding)
                ELSE Return(content_bytes)
        ct == ParseContentType(resp.content_type)
    IN  IF body.kind = "raise" THEN body
        ELSE Return([url |-> url_pos, status |-> resp.status,
                     headers |-> ResponseHeaders(resp), content |-> body.value,
                     content_type |-> ct.ct_main, charset |-> ct.charset])

-----------------------------------------------------------------------------
(* format_output.  A body carries, besides its length, what the renderer   *)
(* can find out about it (doc): whether its bytes are ASCII or are not     *)
(* valid UTF-8, what json.loads makes of the decoded text, and what        *)
(* BeautifulSoup extracts from it.  Every byte of a model body decodes to  *)
(* one character.  Strings are rendered to their lengths: output_parts is  *)
(* a sequence of [tag, len] and "\n".join a sum.                           *)

OUTPUT_TRUNCATE_SIZE == 50 * 1024

TEXT_CONTENT_TYPES ==
    { <<"text/", "html">>, <<"text/", "plain">>, <<"text/", "xml">>,
      <<"application/", "xml">>, <<"application/", "json">>,
      <<"application/", "javascript">>, <<"text/", "javascript">>,
      <<"application/", "x-javascript">>, <<"text/", "css">> }

\* len() of the tokens that content types and header values are made of.
CharLen(tok) ==
    CASE tok \in {"br", "; "} -> 2
      [] tok \in {"xml", "css", "png", "csv"} -> 3
      [] tok \in {"html", "json", "-seq", "-dtd", "gzip", "GZIP"} -> 4
      [] tok \in {"text/", "plain", "utf-8", "ascii", "bogus"} -> 5
      [] tok \in {"image/"} -> 6
      [] tok \in {"deflate", "latin-1"} -> 7
      [] tok \in {"charset="} -> 8
      [] tok \in {"undefined"} -> 9
      [] tok \in {"javascript"} -> 10
      [] tok \in {"application/", "x-javascript", "octet-stream", "Content-Type"} -> 12
      [] tok \in {"Content-Encoding"} -> 16
      [] OTHER -> 0

RECURSIVE StrLen(_)
StrLen(toks) == IF toks = <<>> THEN 0 ELSE CharLen(Head(toks)) + StrLen(Tail(toks))

\* len(result.url): the URL at position u of the batch is "http://host/<u>".
UrlLen(u) == 12 + Len(pystr(u))

Part(tag, len) == [tag |-> tag, len |-> len]

RECURSIVE SumLen(_)
SumLen(parts) == IF parts = <<>> THEN 0 ELSE Head(parts).len + SumLen(Tail(parts))

\* len("\n".join(output_parts))
join_len(parts) == IF parts = <<>> THEN 0 ELSE SumLen(parts) + Len(parts) - 1

\* A classification by membership in the allow-list.
is_text_members(content_type) ==
    \/ content_type \in TEXT_CONTENT_TYPES
    \/ startswith(content_type, <<"text/">>)

\* Lines 254-257: prefix matches against the allow-list, or the text/ prefix.
is_text(content_type) ==
    \/ \E ct \in TEXT_CONTENT_TYPES : startswith(content_type, ct)
    \/ startswith(content_type, <<"text/">>)

Text(doc, n) == [len |-> n, doc |-> doc]

(* bytes.decode(charset): empty bytes decode to '' whatever the charset    *)
(* names; the "undefined" codec raises UnicodeError (not                   *)
(* UnicodeDecodeError) on any other input; utf-8 and ascii reject bytes    *)
(* that are not theirs; a name that is no text codec is a LookupError.     *)
decode(b, charset) ==
    IF b.len = 0 THEN Return(Text(b.doc, 0))
    ELSE IF charset = "latin-1" THEN Return(Text(b.doc, b.len))
    ELSE IF charset \in {"utf-8", "ascii"}
    THEN IF b.doc.cls = "ascii" THEN Return(Text(b.doc, b.len))
         ELSE Raise("UnicodeDecodeError", "invalid start byte")
    ELSE IF charset = "undefined" THEN Raise("UnicodeError", "undefined encoding")
    ELSE Raise("LookupError", "unknown encoding")

\* bytes.decode("utf-8", errors="replace"): one U+FFFD for each bad byte.
decode_replace(b) == Return(Text(b.doc, b.len))

\* Lines 279-285: the decode chain.
decode_text(b, charset) ==
    LET r == decode(b, charset)
    IN  IF r.kind = "raise"
           /\ (isinstance(r.cls, "UnicodeDecodeError") \/ isinstance(r.cls, "LookupError"))
        THEN decode_replace(b)
        ELSE r

\* not text.strip()
is_blank(text) == text.len = 0 \/ text.doc.syntax = "blank"

(* json.loads(text): the parsed value (known by the length of its          *)
(* json.dumps(indent=2) form), JSONDecodeError for text that is not JSON,  *)
(* ValueError for an integer literal beyond the digit limit, and           *)
(* RecursionError for nesting deeper than the interpreter's stack.         *)
json_loads(text) ==
    CASE text.doc.syntax = "json" -> Return([pretty |-> text.doc.pretty])
      [] text.doc.syntax = "json_bigint" -> Raise("ValueError", "Exceeds the limit")
      [] text.doc.syntax = "json_deep" -> Raise("RecursionError", "maximum recursion depth")
      [] OTHER -> Raise("JSONDecodeError", "Expecting value")

\* Lines 174-218.
extract_html_text(text, bs4) ==
    IF ~bs4
    THEN [error |-> TRUE, title |-> 0, description |-> 0,
          text |-> IF text.len > 1000 THEN 1000 + 3 ELSE text.len]
    ELSE [error |-> FALSE, title |-> text.doc.title, description |-> text.doc.desc,
          text |-> Min(text.doc.visible, text.len)]

\* Lines 242-252: the parts that precede the body, in text mode.
head_parts(res, show_headers) ==
    <<Part("URL", 5 + UrlLen(res.url)),
      Part("Status", 8 + Len(pystr(res.status))),
      Part("Content-Type", 14 + StrLen(res.content_type)),
      Part("Size", 6 + Len(pystr(res.content.len)) + 6)>>
    \o (IF show_headers
        THEN <<Part("Headers", 9)>>
             \o [k \in DOMAIN res.headers |->
                    Part("header", 2 + StrLen(res.headers[k][1]) + 2 + StrLen(res.headers[k][2]))]
        ELSE <<>>)

\* Lines 259-276: the notice given for content that is not text.
binary_notice(res, show_headers, json_output) ==
    IF json_output
    THEN [url |-> res.url, mode |-> "json", binary |-> TRUE,
          keys |-> <<"url", "status", "content_type", "size">>
                   \o (IF show_headers THEN <<"headers">> ELSE <<>>)
                   \o <<"binary", "message">>,
          parts |-> <<>>, len |-> 0, marker |-> FALSE]
    ELSE LET parts == head_parts(res, show_headers)
                      \o <<Part("Binary content detected.", 25),
                           Part("Use --output to save to a file.", 31)>>
         IN  [url |-> res.url, mode |-> "text", binary |-> TRUE, keys |-> <<>>, parts |-> parts,
              len |-> join_len(parts), marker |-> FALSE]

(* Lines 288-313: JSON output mode.  The dump is never cut; its length is  *)
(* that of the body value (len) plus the envelope, which the model leaves  *)
(* out.                                                                    *)
json_mode(res, text, show_headers, raw, bs4) ==
    LET base == <<"url", "status", "content_type", "size">>
                \o (IF show_headers THEN <<"headers">> ELSE <<>>)
        Dump(key, tag, n) ==
            Return([url |-> res.url, mode |-> "json", binary |-> FALSE, keys |-> Append(base, key),
                    parts |-> <<Part(tag, n)>>, len |-> n, marker |-> FALSE])
    IN  IF res.content_type = <<"application/", "json">>
        THEN IF is_blank(text) THEN Dump("text", "(empty body)", 12)
             ELSE LET parsed == json_loads(text)
                  IN  IF parsed.kind = "return" THEN Dump("json", "parsed", parsed.value.pretty)
                      ELSE IF isinstance(parsed.cls, "JSONDecodeError")
                      THEN Dump("text", "text", text.len)
                      ELSE parsed
        ELSE IF res.content_type = <<"text/", "html">> /\ ~raw
        THEN Dump("html", "extracted", extract_html_text(text, bs4).text)
        ELSE Dump("text", "text", text.len)

\* Lines 315-347: the parts of the body, in text mode.
body_parts(res, text, raw, bs4) ==
    IF res.content_type = <<"application/", "json">>
    THEN IF is_blank(text) THEN Return(<<Part("(empty body)", 12)>>)
         ELSE LET parsed == json_loads(text)
              IN  IF parsed.kind = "return"
                  THEN Return(<<Part("formatted", parsed.value.pretty)>>)
                  ELSE IF isinstance(parsed.cls, "JSONDecodeError")
                  THEN Return(<<Part("Warning: Invalid JSON", 24 + 41), Part("text", text.len)>>)
                  ELSE parsed
    ELSE IF res.content_type = <<"text/", "html">> /\ ~raw
    THEN LET extracted == extract_html_text(text, bs4)
         IN  IF extracted.error
             THEN Return(<<Part("Error", 59), Part("Raw HTML (truncated):", 22),
                           Part("raw_html", extracted.text)>>)
             ELSE Return((IF extracted.title > 0
                          THEN <<Part("Title", 7 + extracted.title)>> ELSE <<>>)
                         \o (IF extracted.description > 0
                             THEN <<Part("Description", 13 + extracted.description)>>
                             ELSE <<>>)
                         \o <<Part("Content:", 9), Part("text", extracted.text)>>)
    ELSE Return(<<Part("text", text.len)>>)

\* A cut that leaves the marker off.
truncate_silent(res, parts) ==
    LET n == join_len(parts)
    IN  [url |-> res.url, mode |-> "text", binary |-> FALSE, keys |-> <<>>, parts |-> parts,
         len |-> Min(n, OUTPUT_TRUNCATE_SIZE), marker |-> FALSE]

(* Lines 349-356: the join and the cut.  len is the length of what is      *)
(* returned before the marker; marker tells whether the marker follows.    *)
truncate(res, parts) ==
    LET n == join_len(parts)
    IN  [url |-> res.url, mode |-> "text", binary |-> FALSE, keys |-> <<>>, parts |-> parts,
         len |-> IF n > OUTPUT_TRUNCATE_SIZE THEN OUTPUT_TRUNCATE_SIZE ELSE n,
         marker |-> n > OUTPUT_TRUNCATE_SIZE]

\* Lines 221-356, with the module's BeautifulSoup (None when bs4 is absent).
format_output_bs4(res, show_headers, raw, json_output, bs4) ==
    IF ~is_text(res.content_type)
    THEN Return(binary_notice(res, show_headers, json_output))
    ELSE LET text == decode_text(res.content, res.charset)
         IN  IF text.kind = "raise" THEN text
             ELSE IF json_output
             THEN json_mode(res, text.value, show_headers, raw, bs4)
             ELSE LET body == body_parts(res, text.value, raw, bs4)
                  IN  IF body.kind = "raise" THEN body
                      ELSE Return(truncate(res, head_parts(res, show_headers)
                                           \o <<Part("", 0)>> \o body.value))

\* format_output as main() calls it.
format_output(res, show_headers, raw, json_output) ==
    format_output_bs4(res, show_headers, raw, json_output, TRUE)

-----------------------------------------------------------------------------
(* main(): helpers. *)

\* ":" in header
HasColon(header) == \E k \in 1..Len(header) : header[k] = ":"

\* header.split(":", 1)
SplitHeader(header) ==
    LET p == CHOOSE k \in 1..Len(header) :
                 header[k] = ":" /\ \A j \in 1..(k - 1) : header[j] # ":"
    IN  <<strip(SubSeq(header, 1, p - 1)), strip(SubSeq(header, p + 1, Len(header)))>>

\* A header loop that skips a header without a colon instead of exiting.
RECURSIVE parse_headers_skip(_, _, _)
parse_headers_skip(custom, k, dict) ==
    IF k > Len(custom) THEN [ok |-> TRUE, headers |-> dict]
    ELSE IF ~HasColon(custom[k]) THEN parse_headers_skip(custom, k + 1, dict)
    ELSE LET nv == SplitHeader(custom[k])
         IN  parse_headers_skip(custom, k + 1,
                 [n \in DOMAIN dict \cup {nv[1]} |-> IF n = nv[1] THEN nv[2] ELSE dict[n]])

\* Lines 473-481 for the headers from position k on: the dict, or the first bad header.
RECURSIVE parse_headers(_, _, _)
parse_headers(custom, k, dict) ==
    IF k > Len(custom) THEN [ok |-> TRUE, headers |-> dict]
    ELSE IF ~HasColon(custom[k]) THEN [ok |-> FALSE, headers |-> dict]
    ELSE LET nv == SplitHeader(custom[k])
         IN  parse_headers(custom, k + 1,
                 [n \in DOMAIN dict \cup {nv[1]} |-> IF n = nv[1] THEN nv[2] ELSE dict[n]])

\* Lines 513-518: the file a result is saved to.
output_file(output, n_urls, n_results) ==
    IF n_urls > 1
    THEN LET dots == {k \in 1..Len(output) : output[k] = "."}
             p == IF dots = {} THEN 0 ELSE CHOOSE k \in dots : \A j \in dots : j <= k
             base == IF p = 0 THEN output ELSE SubSeq(output, 1, p - 1)
             ext == IF p = 0 THEN <<>> ELSE SubSeq(output, p + 1, Len(output))
         IN  IF ext # <<>> THEN base \o <<"_">> \o pystr(n_results) \o <<".">> \o ext
             ELSE base \o <<"_">> \o pystr(n_results)
    ELSE output

Event(stream, kind, url, msg, items) ==
    [stream |-> stream, kind |-> kind, url |-> url, msg |-> msg, items |-> items]

\* Lines 537-548: what the results block prints.
RECURSIVE divided(_, _)
divided(rs, k) ==
    IF k > Len(rs) THEN <<>>
    ELSE (IF k > 1 THEN <<Event("stdout", "divider", 0, "", <<>>)>> ELSE <<>>)
         \o <<Event("stdout", "result", rs[k].url, "", <<rs[k]>>)>>
         \o divided(rs, k + 1)

print_results(rs, json) ==
    IF rs = <<>> THEN <<>>
    ELSE IF Len(rs) > 1 /\ ~json THEN divided(rs, 1)
    ELSE IF Len(rs) = 1 THEN <<Event("stdout", "result", rs[1].url, "", <<rs[1]>>)>>
    ELSE IF json THEN <<Event("stdout", "json_array", 0, "", rs)>>
    ELSE <<>>

\* An error block that prints the most recent error first.
print_errors_rev(es) ==
    [k \in 1..Len(es) |->
        Event("stderr", "error", es[Len(es) + 1 - k].url, es[Len(es) + 1 - k].msg, <<>>)]

\* Lines 551-553
print_errors(es) ==
    [k \in 1..Len(es) |-> Event("stderr", "error", es[k].url, es[k].msg, <<>>)]

\* Lines 556-559, and falling off the end of main().
exit_code(es, rs) ==
    IF es # <<>> /\ rs = <<>> THEN 1
    ELSE IF es # <<>> THEN 2
    ELSE 0

\* except (ValueError, RuntimeError) of the loop body
main_catches(e) == isinstance(e.cls, "ValueError") \/ isinstance(e.cls, "RuntimeError")

-----------------------------------------------------------------------------
(* The inputs and the environment. *)

Schemes == {"http", "ftp"}

Urls == SeqsUpTo([scheme : Schemes], 1, MaxUrls)

HeaderArgs ==
    { <<>>,
      << <<"A", ":", " ", "b">> >>,
      << <<"A", ":", "b">>, <<"A", "b">> >> }

SizeArgs == { <<"8", "K">>, <<"1", "0", "0">>, <<"b", "o", "g", "u", "s">>,
              <<"i", "n", "f", "K">> }

OutputArgs == { <<>>, <<"o", ".", "h">>, <<"o">> }

TextPlain == [main |-> <<"text/", "plain">>, params |-> <<>>]

Response(encoding, body, ctype) ==
    [status |-> 200, encoding |-> encoding, body |-> body, content_type |-> ctype]

\* What a server may answer to an opened request.
Responses ==
    { Response("", Plain(n), TextPlain) : n \in {100, chunk_size, chunk_size + 1, 20000} }
    \cup
    { Response("", Plain(100), [main |-> <<"image/", "png">>, params |-> <<>>]),
      Response("", Plain(100),
               [main |-> <<"text/", "plain">>, params |-> << <<"charset=", "undefined">> >>]),
      Response("br", Plain(100), TextPlain),
      Response("GZIP", Bytes("gzip", 100, 20000), TextPlain),
      Response("gzip", Bytes("junk", 100, 0), TextPlain),
      Response("gzip", Bytes("gzip_truncated", 100, 0), TextPlain),
      Response("deflate", Bytes("zlib", 100, 300), TextPlain),
      Response("deflate", Bytes("raw_deflate", 100, 300), TextPlain),
      Response("deflate", Bytes("junk", 100, 0), TextPlain) }

\* The ways urlopen may fail.
OpenFailures ==
    { HTTPErr(404, <<"Not Found">>), URLErr(<<"timed out">>), Raise("OSError", "reset") }

-----------------------------------------------------------------------------
(* main() and fetch_url() as a state machine. *)

fetch_locals == <<request, response, unread, chunk, total_size, content>>

ResetFetch ==
    /\ request' = NoValue
    /\ response' = NoValue
    /\ unread' = 0
    /\ chunk' = 0
    /\ total_size' = 0
    /\ content' = 0

Idle ==
    /\ headers = <<>>
    /\ max_size = 0
    /\ i = 0
    /\ results = <<>>
    /\ errors = <<>>
    /\ request = NoValue
    /\ response = NoValue
    /\ unread = 0
    /\ chunk = 0
    /\ total_size = 0
    /\ content = 0
    /\ result = NoValue
    /\ net = <<>>
    /\ files = <<>>
    /\ writes = <<>>
    /\ out = <<>>
    /\ exit_status = NoStatus

Init ==
    /\ args \in [urls : Urls, custom_headers : HeaderArgs, max_size : SizeArgs,
                 output : OutputArgs, json : BOOLEAN, headers : {FALSE}, raw : {FALSE}]
    /\ pc = "parse_headers"
    /\ Idle
    /\ size_str = <<>>
    /\ size_res = NoValue
    /\ call = NoValue
    /\ ret = NoValue

(* An exception e leaves the loop body: the except clause of line 533      *)
(* records it, anything else ends main() with a traceback and status 1.    *)
Raised(e) ==
    IF main_catches(e)
    THEN /\ errors' = Append(errors, [url |-> i, msg |-> e.msg])
         /\ pc' = "loop"
         /\ UNCHANGED <<out, exit_status>>
    ELSE /\ pc' = "crashed"
         /\ exit_status' = 1
         /\ out' = Append(out, Event("stderr", "traceback", i, e.cls, <<>>))
         /\ UNCHANGED errors

\* Lines 473-481
ParseHeaders ==
    /\ pc = "parse_headers"
    /\ LET r == parse_headers(args.custom_headers, 1, <<>>)
       IN  IF r.ok
           THEN /\ headers' = r.headers
                /\ pc' = "parse_size"
                /\ UNCHANGED <<out, exit_status>>
           ELSE /\ out' = out \o <<Event("stderr", "usage", 0, "Invalid header format", <<>>),
                                   Event("stderr", "usage", 0, "Expected format", <<>>)>>
                /\ exit_status' = 1
                /\ pc' = "usage_exit"
                /\ UNCHANGED headers
    /\ UNCHANGED <<args, max_size, i, results, errors, fetch_locals, result, net,
                   files, writes, size_str, size_res, call, ret>>

\* Lines 484-488
ParseMaxSize ==
    /\ pc = "parse_size"
    /\ LET r == parse_size(args.max_size)
       IN  IF r.kind = "return"
           THEN /\ max_size' = r.value
                /\ pc' = "loop"
                /\ UNCHANGED <<out, exit_status>>
           ELSE IF isinstance(r.cls, "ValueError")
           THEN /\ out' = Append(out, Event("stderr", "usage", 0, "Invalid size format", <<>>))
                /\ exit_status' = 1
                /\ pc' = "usage_exit"
                /\ UNCHANGED max_size
           ELSE /\ out' = Append(out, Event("stderr", "traceback", 0, r.cls, <<>>))
                /\ exit_status' = 1
                /\ pc' = "crashed"
                /\ UNCHANGED max_size
    /\ UNCHANGED <<args, headers, i, results, errors, fetch_locals, result, net,
                   files, writes, size_str, size_res, call, ret>>

\* Line 499: the next URL, and the call of fetch_url.
ForUrl ==
    /\ pc = "loop"
    /\ i < Len(args.urls)
    /\ i' = i + 1
    /\ pc' = "fetch_validate"
    /\ UNCHANGED <<args, headers, max_size, results, errors, fetch_locals, result, net,
                   files, writes, out, exit_status, size_str, size_res, call, ret>>

\* Line 499: the list is exhausted.
LoopEnd ==
    /\ pc = "loop"
    /\ i = Len(args.urls)
    /\ pc' = "print_results"
    /\ UNCHANGED <<args, headers, max_size, i, results, errors, fetch_locals, result, net,
                   files, writes, out, exit_status, size_str, size_res, call, ret>>

\* Lines 95-98
FetchValidate ==
    /\ pc = "fetch_validate"
    /\ IF BadScheme(args.urls[i])
       THEN Raised(Raise("ValueError", "Only http and https URLs are supported"))
       ELSE /\ pc' = "fetch_request"
            /\ UNCHANGED <<errors, out, exit_status>>
    /\ UNCHANGED <<args, headers, max_size, i, results, fetch_locals, result, net,
                   files, writes, size_str, size_res, call, ret>>

\* Lines 101-110
FetchRequest ==
    /\ pc = "fetch_request"
    /\ request' = [url |-> i, headers |-> headers]
    /\ pc' = "fetch_open"
    /\ UNCHANGED <<args, headers, max_size, i, results, errors, response, unread,
                   chunk, total_size, content, result, net, files, writes, out, exit_status,
                   size_str, size_res, call, ret>>

\* Line 113: urlopen answers with a response.
FetchOpen ==
    /\ pc = "fetch_open"
    /\ \E r \in Responses :
          /\ response' = r
          /\ unread' = r.body.len
    /\ net' = Append(net, request.url)
    /\ chunk' = 0
    /\ total_size' = 0
    /\ content' = 0
    /\ pc' = "fetch_read"
    /\ UNCHANGED <<args, headers, max_size, i, results, errors, request, result,
                   files, writes, out, exit_status, size_str, size_res, call, ret>>

\* Line 113: urlopen raises; lines 158-171 turn it into a RuntimeError.
FetchOpenFails ==
    /\ pc = "fetch_open"
    /\ net' = Append(net, request.url)
    /\ \E e \in OpenFailures : Raised(fetch_except(e))
    /\ ResetFetch
    /\ UNCHANGED <<args, headers, max_size, i, results, result, files, writes,
                   size_str, size_res, call, ret>>

\* Line 120: response.read(chunk_size) returns the next chunk, empty at the end.
FetchRead ==
    /\ pc = "fetch_read"
    /\ chunk' = Min(chunk_size, unread)
    /\ unread' = unread - chunk'
    /\ pc' = "fetch_chunk"
    /\ UNCHANGED <<args, headers, max_size, i, results, errors, request, response,
                   total_size, content, result, net, files, writes, out, exit_status,
                   size_str, size_res, call, ret>>

\* Line 120: the read fails (the connection drops or times out mid-body).
FetchReadFails ==
    /\ pc = "fetch_read"
    /\ unread > 0
    /\ Raised(fetch_except(Raise("OSError", "reset")))
    /\ ResetFetch
    /\ UNCHANGED <<args, headers, max_size, i, results, result, net, files, writes,
                   size_str, size_res, call, ret>>

\* Lines 123-127: the chunk is counted, checked, and only then written.
FetchChunk ==
    /\ pc = "fetch_chunk"
    /\ chunk # 0
    /\ IF exceeds(total_size + chunk, max_size)
       THEN /\ Raised(fetch_except(Raise("RuntimeError", "Response size exceeds maximum")))
            /\ ResetFetch
       ELSE /\ total_size' = total_size + chunk
            /\ content' = content + chunk
            /\ chunk' = 0
            /\ pc' = "fetch_read"
            /\ UNCHANGED <<errors, out, exit_status, request, response, unread>>
    /\ UNCHANGED <<args, headers, max_size, i, results, result, net, files, writes,
                   size_str, size_res, call, ret>>

\* Lines 121-122 and 129-156: the empty chunk ends the loop; the result is built.
FetchFinish ==
    /\ pc = "fetch_chunk"
    /\ chunk = 0
    /\ LET r == fetch_finish(i, response,
                             [response.body EXCEPT !.len = content])
       IN  IF r.kind = "raise"
           THEN /\ Raised(fetch_except(r))
                /\ UNCHANGED result
           ELSE /\ result' = r.value
                /\ pc' = "fetched"
                /\ UNCHANGED <<errors, out, exit_status>>
    /\ ResetFetch
    /\ UNCHANGED <<args, headers, max_size, i, results, net, files, writes,
                   size_str, size_res, call, ret>>

\* Lines 512-522
SaveResult ==
    /\ pc = "fetched"
    /\ args.output # <<>>
    /\ LET f == output_file(args.output, Len(args.urls), Len(results))
       IN  /\ files' = [p \in DOMAIN files \cup {f} |-> IF p = f THEN result.content ELSE files[p]]
           /\ writes' = Append(writes, f)
           /\ out' = Append(out, Event("stdout", "saved", i, "Saved to", <<>>))
    /\ result' = NoValue
    /\ pc' = "loop"
    /\ UNCHANGED <<args, headers, max_size, i, results, errors, fetch_locals, net,
                   exit_status, size_str, size_res, call, ret>>

\* Lines 524-531
RenderResult ==
    /\ pc = "fetched"
    /\ args.output = <<>>
    /\ LET r == format_output(result, args.headers, args.raw, args.json)
       IN  IF r.kind = "raise"
           THEN /\ Raised(r)
                /\ UNCHANGED results
           ELSE /\ results' = Append(results, r.value)
                /\ pc' = "loop"
                /\ UNCHANGED <<errors, out, exit_status>>
    /\ result' = NoValue
    /\ UNCHANGED <<args, headers, max_size, i, fetch_locals, net, files, writes,
                   size_str, size_res, call, ret>>

\* Lines 537-548
PrintResults ==
    /\ pc = "print_results"
    /\ out' = out \o print_results(results, args.json)
    /\ pc' = "print_errors"
    /\ UNCHANGED <<args, headers, max_size, i, results, errors, fetch_locals, result, net,
                   files, writes, exit_status, size_str, size_res, call, ret>>

\* Lines 551-553
PrintErrors ==
    /\ pc = "print_errors"
    /\ out' = out \o print_errors(errors)
    /\ pc' = "exit"
    /\ UNCHANGED <<args, headers, max_size, i, results, errors, fetch_locals, result, net,
                   files, writes, exit_status, size_str, size_res, call, ret>>

\* Lines 556-559
Exit ==
    /\ pc = "exit"
    /\ exit_status' = exit_code(errors, results)
    /\ pc' = "done"
    /\ UNCHANGED <<args, headers, max_size, i, results, errors, fetch_locals, result, net,
                   files, writes, out, size_str, size_res, call, ret>>

Next ==
    \/ ParseHeaders
    \/ ParseMaxSize
    \/ ForUrl
    \/ LoopEnd
    \/ FetchValidate
    \/ FetchRequest
    \/ FetchOpen
    \/ FetchOpenFails
    \/ FetchRead
    \/ FetchReadFails
    \/ FetchChunk
    \/ FetchFinish
    \/ SaveResult
    \/ RenderResult
    \/ PrintResults
    \/ PrintErrors
    \/ Exit

Spec == Init /\ [][Next]_vars

-----------------------------------------------------------------------------
(* parse_size on its own, over every short string of SizeAlphabet and the  *)
(* strings of the documentation.                                           *)

SizeAlphabet == {"0", "1", "5", ".", "K", "M", "B", "k", " ", "-"}

SizeExamples ==
    { <<"1", "M">>, <<"5", "0", "0", "K">>, <<"1", "0", "M", "B">>, <<"1", "2", "3">>,
      <<"b", "o", "g", "u", "s">>, <<"1", "G">>, <<"1", "g", "b">>, <<"1", "0", "k", "b">>,
      <<"i", "n", "f", "K">>, <<"n", "a", "n", "K">>, <<"I", "N", "F">>,
      <<"-", "i", "n", "f", "m", "b">> }

SizeInputs == SeqsUpTo(SizeAlphabet, 0, MaxLen) \cup SizeExamples

SizeInit ==
    /\ args = NoValue
    /\ pc = "parse_size_call"
    /\ Idle
    /\ size_str \in SizeInputs
    /\ size_res = NoValue
    /\ call = NoValue
    /\ ret = NoValue

ParseSizeCall ==
    /\ pc = "parse_size_call"
    /\ size_res' = parse_size(size_str)
    /\ pc' = "parse_size_done"
    /\ UNCHANGED <<args, headers, max_size, i, results, errors, fetch_locals, result, net,
                   files, writes, out, exit_status, size_str, call, ret>>

SizeNext == ParseSizeCall

SpecSize == SizeInit /\ [][SizeNext]_vars

-----------------------------------------------------------------------------
(* The function specification: one call of one of the program's functions, *)
(* on arguments drawn from the sets below.                                 *)

Doc(cls, syntax, pretty) ==
    [cls |-> cls, syntax |-> syntax, pretty |-> pretty, title |-> 0, desc |-> 0, visible |-> 0]

HtmlDoc(title, desc, visible) ==
    [cls |-> "ascii", syntax |-> "html", pretty |-> 0, title |-> title, desc |-> desc,
     visible |-> visible]

\* Body lengths around the point where the rendering reaches OUTPUT_TRUNCATE_SIZE.
NearCap == (OUTPUT_TRUNCATE_SIZE - 100)..(OUTPUT_TRUNCATE_SIZE - 60)

CallBodies ==
    { Body(PlainText, n) : n \in {0, 3, 1000, 1001, 60000} \cup NearCap }
    \cup
    { Body(Doc("invalid", "text", 0), 2),
      Body(Doc("ascii", "blank", 0), 3),
      Body(Doc("ascii", "json", 12), 7),
      Body(Doc("ascii", "json", 60000), 51150),
      Body(Doc("ascii", "json_invalid", 0), 2),
      Body(Doc("ascii", "json_bigint", 0), 5000),
      Body(Doc("ascii", "json_deep", 0), 100000),
      Body(HtmlDoc(1, 0, 5), 50),
      Body(HtmlDoc(0, 20, 1500), 2000),
      Body(HtmlDoc(0, 0, 52000), 60000) }

CallContentTypes ==
    { <<"text/", "html">>, <<"text/", "plain">>, <<"text/", "csv">>,
      <<"application/", "json">>, <<"application/", "xml">>,
      <<"application/", "json", "-seq">>, <<"application/", "xml", "-dtd">>,
      <<"application/", "octet-stream">>, <<"image/", "png">> }

CallCharsets == {"utf-8", "ascii", "latin-1", "bogus", "undefined"}

CallResults ==
    { [url |-> 1, status |-> 200,
       headers |-> << << <<"Content-Type">>, ct >> >>,
       content |-> b, content_type |-> ct, charset |-> cs] :
      b \in CallBodies, ct \in CallContentTypes, cs \in CallCharsets }

FormatCalls ==
    [fn : {"format_output"}, result : CallResults, show_headers : BOOLEAN, raw : BOOLEAN,
     json_output : BOOLEAN, bs4 : BOOLEAN]

\* The longest reason of a URLError, in words.
MaxReason == 2

ReasonWords == {"timed out", "Timed Out", "ssl", "SSL", "refused", "certificate"}

\* What may be raised inside fetch_url's try block.
TryFailures ==
    { HTTPErr(code, reason) : code \in {304, 404, 503},
                              reason \in {<<"Not Found">>, <<"timed out">>, <<"SSL">>} }
    \cup { URLErr(reason) : reason \in SeqsUpTo(ReasonWords, 0, MaxReason) }
    \cup { Raise(cls, msg) : cls \in {"OSError", "TimeoutError", "BadGzipFile"},
                             msg \in {"reset", "timed out", "ssl"} }
    \cup { Raise("RuntimeError", "Response size exceeds maximum"),
           Raise("zlib.error", "header"), Raise("EOFError", "truncated") }

ExceptCalls == [fn : {"fetch_except"}, e : TryFailures]

\* Plaintexts, their compressions in the three wire formats, and bytes that are none.
Plaintexts == { Body(PlainText, 0), Body(PlainText, 300), Body(Doc("ascii", "json", 12), 7) }

Payloads ==
    Plaintexts
    \cup { Compressed(fmt, 20 + (p.len \div 3), p) :
             fmt \in {"gzip", "zlib", "raw_deflate"}, p \in Plaintexts }
    \cup { Bytes("junk", 100, 0), Bytes("gzip_truncated", 100, 0), Bytes("zlib", 0, 0) }

\* Content-Encoding values, as fetch_url hands them over (lowered) and otherwise.
Encodings == {"gzip", "deflate", "", "identity", "br", "x-gzip", "gzip, deflate", "GZIP", "Deflate"}

DecompressCalls == [fn : {"decompress_content"}, content : Payloads, encoding : Encodings]

CallInit ==
    /\ args = NoValue
    /\ pc = "call"
    /\ Idle
    /\ size_str = <<>>
    /\ size_res = NoValue
    /\ call \in FormatCalls \cup ExceptCalls \cup DecompressCalls
    /\ ret = NoValue

FormatOutputCall ==
    /\ pc = "call"
    /\ call.fn = "format_output"
    /\ ret' = format_output_bs4(call.result, call.show_headers, call.raw, call.json_output,
                                call.bs4)
    /\ pc' = "returned"
    /\ UNCHANGED <<args, headers, max_size, i, results, errors, fetch_locals, result, net,
                   files, writes, out, exit_status, size_str, size_res, call>>

\* fetch_url's try block raises call.e: the except clauses decide what leaves fetch_url.
FetchExceptCall ==
    /\ pc = "call"
    /\ call.fn = "fetch_except"
    /\ ret' = fetch_except(call.e)
    /\ pc' = "returned"
    /\ UNCHANGED <<args, headers, max_size, i, results, errors, fetch_locals, result, net,
                   files, writes, out, exit_status, size_str, size_res, call>>

DecompressCall ==
    /\ pc = "call"
    /\ call.fn = "decompress_content"
    /\ ret' = decompress_content(call.content, call.encoding)
    /\ pc' = "returned"
    /\ UNCHANGED <<args, headers, max_size, i, results, errors, fetch_locals, result, net,
                   files, writes, out, exit_status, size_str, size_res, call>>

CallNext ==
    \/ FormatOutputCall
    \/ FetchExceptCall
    \/ DecompressCall

SpecCall == CallInit /\ [][CallNext]_vars

-----------------------------------------------------------------------------
(* Properties of the batch: vocabulary. *)

Positions == 1..Len(args.urls)

\* The result entries and the error entries of the URL at position u.
ResultEntries(u) == {k \in DOMAIN results : results[k].url = u}

ErrorEntries(u) == {k \in DOMAIN errors : errors[k].url = u}

OutEvents(kind, u) == {k \in DOMAIN out : out[k].kind = kind /\ out[k].url = u}

\* The URL at position u was fetched and its result was rendered or saved.
Succeeded(u) == ResultEntries(u) # {} \/ OutEvents("saved", u) # {}

\* main() has left the loop body of every URL it started.
Terminated == pc \in {"done", "crashed"} /\ i >= 1

SchemeIsHttp(u) == args.urls[u].scheme \in {"http", "https"}

StrictlyIncreasing(seq) == \A j, k \in DOMAIN seq : j < k => seq[j] < seq[k]

SizeError(u) == [url |-> u, msg |-> "Response size exceeds maximum"]

SchemeError(u) == [url |-> u, msg |-> "Only http and https URLs are supported"]

-----------------------------------------------------------------------------
(* C1: when main() finishes, the exit status is 0 if no URL failed, 1 if   *)
(* every URL failed and 2 if some succeeded and some failed, in every      *)
(* mode, save mode included.                                               *)
C1_ExitStatus ==
    pc = "done" =>
        exit_status = IF \A u \in Positions : Succeeded(u) THEN 0
                      ELSE IF \A u \in Positions : ~Succeeded(u) THEN 1
                      ELSE 2

(* C2: in save mode with several URLs, the files written for two           *)
(* successful URLs of one batch have distinct names, so no saved file is   *)
(* overwritten by a later URL of the run.                                  *)
C2_DistinctFiles ==
    \A j, k \in DOMAIN writes : j # k => writes[j] # writes[k]

(* C3: whatever fails while URL i is fetched, decompressed or rendered,    *)
(* the failure is recorded as exactly one error line and the loop goes on: *)
(* every URL of the list is attempted, and each one either succeeded or    *)
(* has exactly one error line.                                             *)
C3_EveryUrlAttempted ==
    Terminated =>
        /\ i = Len(args.urls)
        /\ \A u \in Positions : Succeeded(u) \/ Cardinality(ErrorEntries(u)) = 1

(* C4: a chunk that takes the running total over max_size aborts fetch_url *)
(* with the size error: no FetchResult is returned, nothing is rendered or *)
(* saved, the buffer is dropped; and a FetchResult only ever comes from a  *)
(* body read to its end with a total within max_size.                      *)
C4_SizeExceededAborts ==
    [][ /\ (pc = "fetch_chunk" /\ chunk > 0 /\ total_size + chunk > max_size) =>
              /\ errors' = Append(errors, SizeError(i))
              /\ pc' = "loop"
              /\ result' = NoValue
              /\ content' = 0
              /\ results' = results
              /\ files' = files
              /\ writes' = writes
        /\ (result' # NoValue /\ result' # result) =>
              /\ pc = "fetch_chunk" /\ chunk = 0 /\ unread = 0
              /\ total_size <= max_size
              /\ content = response.body.len
              /\ result'.url = i
        /\ (results' # results \/ files' # files) => (pc = "fetched" /\ result.url = i)
      ]_vars

\* C4's case: an oversized body was aborted with the size error.
C4_Witness ==
    /\ pc = "done"
    /\ \E k \in DOMAIN errors : errors[k] = SizeError(errors[k].url)
    /\ \E u \in Positions : Succeeded(u)

(* C5: every FetchResult fetch_url returns has len(content) <= max_size,   *)
(* also when the body was sent gzip- or deflate-encoded.                   *)
C5_ContentWithinMaxSize ==
    result # NoValue => result.content.len <= max_size

(* C6: a URL whose scheme is neither http nor https fails with the         *)
(* invalid-URL error before the request is built or opened: no request, no *)
(* urlopen call for it; it is counted as failed and the loop goes on to    *)
(* the URLs after it, which are fetched.                                   *)
C6_BadSchemeNoNetwork ==
    /\ [](/\ \A k \in DOMAIN net : SchemeIsHttp(net[k])
          /\ request # NoValue => SchemeIsHttp(request.url)
          /\ pc = "done" =>
                \A u \in Positions :
                    /\ SchemeIsHttp(u) => \E k \in DOMAIN net : net[k] = u
                    /\ ~SchemeIsHttp(u) => /\ ~Succeeded(u)
                                           /\ \E k \in DOMAIN errors : errors[k] = SchemeError(u)
                                           /\ exit_status \in {1, 2})
    /\ [][ (pc = "fetch_validate" /\ ~SchemeIsHttp(i)) =>
              /\ errors' = Append(errors, SchemeError(i))
              /\ net' = net
              /\ request' = NoValue
              /\ response' = NoValue
              /\ pc' = "loop"
              /\ i' = i
         ]_vars

\* C6's case: a bad-scheme URL failed and a URL after it was fetched.
C6_Witness ==
    /\ pc = "done"
    /\ \E u, v \in Positions :
          /\ u < v
          /\ ~SchemeIsHttp(u)
          /\ errors[1] = SchemeError(u)
          /\ \E k \in DOMAIN net : net[k] = v
          /\ Succeeded(v)

BadHeaderArg ==
    \E k \in DOMAIN args.custom_headers :
        \A j \in DOMAIN args.custom_headers[k] : args.custom_headers[k][j] # ":"

BadSizeArg ==
    args.max_size \in { <<"b", "o", "g", "u", "s">>, <<"i", "n", "f", "K">> }

(* C7: with a --header value that has no colon, or a --max-size that       *)
(* cannot be parsed, main() ends with status 1 before the first fetch_url  *)
(* call: no request, no urlopen call, no file written.                     *)
C7_BadArgsExitEarly ==
    (BadHeaderArg \/ BadSizeArg) =>
        /\ pc \in {"parse_headers", "parse_size", "usage_exit", "crashed"}
        /\ i = 0
        /\ net = <<>>
        /\ request = NoValue
        /\ writes = <<>>
        /\ files = <<>>
        /\ results = <<>>
        /\ pc \in {"usage_exit", "crashed"} => exit_status = 1

\* C7's case: the size could not be parsed and main() has exited.
C7_Witness ==
    /\ BadSizeArg
    /\ ~BadHeaderArg
    /\ pc = "usage_exit"
    /\ exit_status = 1
    /\ Len(args.urls) > 1

\* The URL positions of the results printed, in the order printed.
RECURSIVE PrintedResults(_)
PrintedResults(o) ==
    IF o = <<>> THEN <<>>
    ELSE LET e == Head(o)
         IN  (IF e.kind \in {"result", "json_array"}
              THEN [k \in 1..Len(e.items) |-> e.items[k].url]
              ELSE <<>>) \o PrintedResults(Tail(o))

\* The URL positions of the error lines printed, in the order printed.
RECURSIVE PrintedErrors(_)
PrintedErrors(o) ==
    IF o = <<>> THEN <<>>
    ELSE (IF Head(o).kind = "error" THEN <<Head(o).url>> ELSE <<>>)
         \o PrintedErrors(Tail(o))

(* C8: URLs are processed one after another in input order; the results    *)
(* are printed in the input order of the URLs that succeeded, the error    *)
(* lines in the input order of the URLs that failed, and every error line  *)
(* comes after all the results.                                            *)
C8_InputOrder ==
    /\ StrictlyIncreasing(net)
    /\ \A k \in DOMAIN net : net[k] <= i
    /\ StrictlyIncreasing([k \in DOMAIN results |-> results[k].url])
    /\ StrictlyIncreasing([k \in DOMAIN errors |-> errors[k].url])
    /\ StrictlyIncreasing(PrintedResults(out))
    /\ StrictlyIncreasing(PrintedErrors(out))
    /\ \A j, k \in DOMAIN out :
          (j < k /\ out[j].kind = "error") => out[k].kind = "error"
    /\ pc \in {"print_errors", "exit", "done"} =>
          PrintedResults(out) = [k \in DOMAIN results |-> results[k].url]
    /\ pc \in {"exit", "done"} =>
          PrintedErrors(out) = [k \in DOMAIN errors |-> errors[k].url]
    /\ pc = "done" /\ args.output = <<>> =>
          \A u \in Positions : (\E k \in DOMAIN PrintedResults(out) : PrintedResults(out)[k] = u)
                               \/ (\E k \in DOMAIN PrintedErrors(out) : PrintedErrors(out)[k] = u)

\* C8's case: results and error lines of an interleaved batch were printed.
C8_Witness ==
    /\ pc = "done"
    /\ Len(args.urls) = 3
    /\ PrintedResults(out) = <<1, 3>>
    /\ PrintedErrors(out) = <<2>>

(* C9: without --output, each URL contributes exactly one entry to exactly *)
(* one of results and errors; with s >= 2 successes in text mode the s     *)
(* results are printed with exactly s-1 dividers; exactly one error line   *)
(* is printed per failed URL; a batch whose URLs all fail prints nothing   *)
(* to the output stream.                                                   *)
C9_OneEntryPerUrl ==
    (Terminated /\ args.output = <<>>) =>
        LET s == Len(results)
            stdout == {k \in DOMAIN out : out[k].stream = "stdout"}
        IN  /\ \A u \in 1..i :
                  Cardinality(ResultEntries(u)) + Cardinality(ErrorEntries(u)) = 1
            /\ \A u \in 1..i :
                  ResultEntries(u) = {} => Cardinality(OutEvents("error", u)) = 1
            /\ (~args.json /\ s >= 2) =>
                  /\ Cardinality({k \in stdout : out[k].kind = "divider"}) = s - 1
                  /\ Cardinality({k \in stdout : out[k].kind = "result"}) = s
            /\ s = 0 => stdout = {}

(* C10: parse_size is case-insensitive; a number followed by K, KB, M, MB, *)
(* G or GB is multiplied by the multiplier of the longest suffix that      *)
(* matches; a string with no suffix is its integer value; anything else    *)
(* fails with the invalid-size-format ValueError and with no other kind of *)
(* failure.  1M = 1048576, 500K = 512000, 10MB = 10485760, 123 = 123 and   *)
(* "bogus" fails.                                                          *)
C10_ParseSize ==
    pc = "parse_size_done" =>
        /\ size_res.kind = "raise" => size_res.cls = "ValueError"
        /\ size_res = parse_size(upper(size_str))
        /\ size_str = <<"1", "M">> => size_res.value = 1048576
        /\ size_str = <<"5", "0", "0", "K">> => size_res.value = 512000
        /\ size_str = <<"1", "0", "M", "B">> => size_res.value = 10485760
        /\ size_str = <<"1", "2", "3">> => size_res.value = 123
        /\ size_str = <<"b", "o", "g", "u", "s">> => size_res.kind = "raise"
        /\ \A n \in {1, 10, 15, 100} :
              \A k \in DOMAIN multipliers :
                  upper(strip(size_str)) = pystr(n) \o multipliers[k][1] =>
                      (size_res.kind = "return" /\ size_res.value = n * multipliers[k][2])

-----------------------------------------------------------------------------
(* Properties of format_output: vocabulary. *)

\* format_output has been called and has returned or raised.
Formatted == pc = "returned" /\ call.fn = "format_output"

\* The tags of the parts that carry the response body.
BodyTags == {"text", "formatted", "parsed", "raw_html", "extracted"}

\* The rendering carries some of the body.
EmitsBody(r) == \E k \in DOMAIN r.parts : r.parts[k].tag \in BodyTags

\* The call gave the binary notice: it returned it, without any of the body.
BinaryNotice == ret.kind = "return" /\ ret.value.binary /\ ~EmitsBody(ret.value)

InAllowList(ct) == ct \in TEXT_CONTENT_TYPES

HasPrefix(ct, p) == Len(p) <= Len(ct) /\ SubSeq(ct, 1, Len(p)) = p

(* C11 as stated: a content type that is neither in the allow-list nor     *)
(* starts with "text/" gets the binary notice and its body is neither      *)
(* decoded nor emitted.  Violated: "application/json-seq" is rendered as   *)
(* text because the code matches the allow-list entries as prefixes.       *)
C11_MembersOnly ==
    Formatted =>
        LET ct == call.result.content_type
        IN  (~InAllowList(ct) /\ ~HasPrefix(ct, <<"text/">>)) => BinaryNotice

(* C11, amended: a content type is text-like exactly when one of the       *)
(* allow-list entries, or "text/", is a prefix of it; every other content  *)
(* type gets the binary notice (in either mode), whatever the charset and  *)
(* the bytes, and no text-like one does.                                   *)
C11_PrefixMatch ==
    Formatted =>
        LET ct == call.result.content_type
            textlike == \/ \E p \in TEXT_CONTENT_TYPES : HasPrefix(ct, p)
                        \/ HasPrefix(ct, <<"text/">>)
        IN  /\ ~textlike => BinaryNotice
            /\ textlike => ~(ret.kind = "return" /\ ret.value.binary)

\* A type that only has an allow-list entry as its prefix is rendered with its body.
C11_Witness ==
    /\ Formatted
    /\ call.result.content_type = <<"application/", "json", "-seq">>
    /\ ret.kind = "return" /\ ~ret.value.binary /\ EmitsBody(ret.value)


\* The exception classes a codec lookup or a decoder raises.
DecodeFailure(cls) == isinstance(cls, "UnicodeError") \/ isinstance(cls, "LookupError")

(* C12: whatever the bytes and the declared charset (valid, unknown, or    *)
(* one whose decoder rejects the bytes), format_output gets text out of    *)
(* the decode chain: no decode failure leaves format_output.  Violated:    *)
(* the charset "undefined" raises UnicodeError, which is neither a         *)
(* UnicodeDecodeError nor a LookupError, so the fallbacks are not tried.   *)
C12_DecodeNeverFails ==
    Formatted => ~(ret.kind = "raise" /\ DecodeFailure(ret.cls))

HasPart(r, tag) == \E k \in DOMAIN r.parts : r.parts[k].tag = tag

(* C13: for a result of type application/json whose bytes decode, in       *)
(* either output mode: a body that is empty or all whitespace gives the    *)
(* empty-body marker and is not parsed; a body that parses gives the       *)
(* parsed value (in text mode its 2-space pretty-printing); a body that    *)
(* does not parse never makes format_output fail, and the output has both  *)
(* a warning and the raw text.  Violated twice: json.loads failures that   *)
(* are not JSONDecodeError leave format_output, and JSON mode gives the    *)
(* raw text without any warning.                                           *)
C13_JsonBody ==
    (/\ Formatted
     /\ call.result.content_type = <<"application/", "json">>
     /\ ~(ret.kind = "raise" /\ DecodeFailure(ret.cls))) =>
        LET doc == call.result.content.doc
            n == call.result.content.len
        IN  IF n = 0 \/ doc.syntax = "blank"
            THEN /\ ret.kind = "return"
                 /\ HasPart(ret.value, "(empty body)")
                 /\ ~HasPart(ret.value, "formatted") /\ ~HasPart(ret.value, "parsed")
            ELSE IF doc.syntax = "json"
            THEN /\ ret.kind = "return"
                 /\ IF call.json_output
                    THEN ret.value.parts = <<Part("parsed", doc.pretty)>>
                    ELSE ret.value.parts[Len(ret.value.parts)] = Part("formatted", doc.pretty)
            ELSE /\ ret.kind = "return"
                 /\ HasPart(ret.value, "Warning: Invalid JSON")
                 /\ HasPart(ret.value, "text")

\* The call rendered a text-like result: it returned, and not the binary notice.
RenderedText == Formatted /\ ret.kind = "return" /\ ~ret.value.binary

(* C14: a text-like result rendered in text mode comes back whole when     *)
(* its rendering has at most 51200 characters, and otherwise as exactly    *)
(* its first 51200 characters followed by the truncation marker; the       *)
(* marker is there exactly when the rendering exceeds 51200.  In JSON      *)
(* mode the dump is never cut and never carries the marker.                *)
C14_Truncation ==
    RenderedText =>
        LET r == ret.value
            full == join_len(r.parts)
        IN  IF call.json_output
            THEN r.mode = "json" /\ ~r.marker /\ r.len = SumLen(r.parts)
            ELSE /\ r.mode = "text"
                 /\ full <= 51200 => (r.len = full /\ ~r.marker)
                 /\ full > 51200 => (r.len = 51200 /\ r.marker)

\* A rendering one character over the cap is cut to the cap and marked.
C14_Witness ==
    /\ RenderedText /\ ~call.json_output
    /\ join_len(ret.value.parts) = 51201
    /\ ret.value.len = 51200 /\ ret.value.marker

-----------------------------------------------------------------------------
(* Properties of fetch_url's error mapping. *)

\* An exception was raised in fetch_url's try block and met the except clauses.
Mapped == pc = "returned" /\ call.fn = "fetch_except"

\* The reason mentions w, in any case.
Mentions(reason, Spellings) == \E k \in DOMAIN reason : reason[k] \in Spellings

(* C15: a failure of the request leaves fetch_url as exactly one error:    *)
(* an HTTPError as the HTTP status error with its code and reason,         *)
(* whatever its reason says; a URLError as Timeout when its reason         *)
(* mentions "timed out" (also when it mentions "ssl" too), as the TLS      *)
(* error when it mentions "ssl" only, and as the network error otherwise;  *)
(* any other OSError as the connection error.  It is never a FetchResult.  *)
C15_ErrorClasses ==
    Mapped =>
        LET e == call.e
            timed == e.cls = "URLError" /\ Mentions(e.reason, {"timed out", "Timed Out"})
            ssl == e.cls = "URLError" /\ Mentions(e.reason, {"ssl", "SSL"})
            oserror == e.cls \in {"OSError", "TimeoutError", "BadGzipFile"}
        IN  /\ ret.kind = "raise"
            /\ e.cls = "HTTPError" =>
                   /\ ret.cls = "RuntimeError" /\ ret.msg = "HTTP status"
                   /\ ret.code = e.code /\ ret.reason = e.reason
            /\ timed => ret = Raise("RuntimeError", "Request timed out")
            /\ (ssl /\ ~timed) => ret = Raise("RuntimeError", "SSL error")
            /\ (e.cls = "URLError" /\ ~ssl /\ ~timed) =>
                   ret = Raise("RuntimeError", "Network error")
            /\ oserror => ret = Raise("RuntimeError", "Connection error")
            /\ e.cls \notin {"HTTPError", "URLError", "OSError", "TimeoutError", "BadGzipFile"}
                   => ret = e

\* A reason that mentions both "ssl" and "timed out" gives the timeout error.
C15_Witness ==
    /\ Mapped
    /\ call.e = URLErr(<<"SSL", "timed out">>)
    /\ ret.msg = "Request timed out"

-----------------------------------------------------------------------------
(* Properties of decompress_content. *)

Decompressed == pc = "returned" /\ call.fn = "decompress_content"

\* The plaintext that the bytes c are a compression of.
PlaintextOf(c) == [fmt |-> "identity", len |-> c.plain, plain |-> c.plain, doc |-> c.doc]

(* C16: decompress_content returns its input unchanged, without raising,   *)
(* for every encoding other than "gzip" and "deflate" (the empty value,    *)
(* other codings, compound values, other spellings); under "deflate" both  *)
(* the zlib-wrapped and the raw-deflate compression of a plaintext, and    *)
(* under "gzip" its gzip compression, come back as that plaintext.         *)
C16_Decompress ==
    Decompressed =>
        LET c == call.content
            enc == call.encoding
        IN  /\ enc \notin {"gzip", "deflate"} => ret = [kind |-> "return", value |-> c]
            /\ (enc = "deflate" /\ c.fmt \in {"zlib", "raw_deflate"} /\ c.len > 0) =>
                   ret = [kind |-> "return", value |-> PlaintextOf(c)]
            /\ (enc = "gzip" /\ c.fmt = "gzip") =>
                   ret = [kind |-> "return", value |-> PlaintextOf(c)]

\* A raw-deflate stream under "deflate": the second attempt inflates it.
C16_Witness ==
    /\ Decompressed
    /\ call.encoding = "deflate" /\ call.content.fmt = "raw_deflate" /\ call.content.plain = 300
    /\ ret.kind = "return" /\ ret.value.fmt = "identity" /\ ret.value.len = 300

-----------------------------------------------------------------------------
(* Properties of the streaming loop. *)

(* C17: the size check is made on every chunk, before the chunk is         *)
(* written: the buffer never holds more than max_size bytes; at most       *)
(* max_size + 8192 bytes are ever read from the transport; and the bound   *)
(* is strict: the size error is only given for a body longer than          *)
(* max_size, and a result comes from a body of at most max_size bytes,     *)
(* all of them in the buffer.                                              *)
C17_SizeCheck ==
    /\ [](/\ content <= max_size
          /\ response # NoValue => response.body.len - unread <= max_size + 8192)
    /\ [][ /\ (pc = "fetch_chunk" /\ chunk > 0) =>
                  /\ content = total_size
                  /\ total_size + chunk > max_size =>
                        (errors' = Append(errors, SizeError(i)) /\ content' = 0)
                  /\ total_size + chunk <= max_size =>
                        (content' = content + chunk /\ errors' = errors)
           /\ errors' = Append(errors, SizeError(i)) => response.body.len > max_size
           /\ (result = NoValue /\ result' # NoValue) =>
                  (content = response.body.len /\ response.body.len <= max_size)
          ]_vars

\* A body of exactly max_size bytes was read to its end and returned.
C17_Witness ==
    /\ pc = "fetched"
    /\ result.content.fmt = "identity"
    /\ result.content.len = max_size
    /\ result.content.len = chunk_size

-----------------------------------------------------------------------------
(* Properties of the results block. *)

\* The events printed to the output stream, in order.
Stdout == SelectSeq(out, LAMBDA e : e.stream = "stdout")

(* C18: with --json and several URLs (and no --output), what is printed    *)
(* depends only on the number s of URLs that succeeded: for s >= 2 one     *)
(* JSON array of the s results in input order, for s = 1 the one result    *)
(* alone, not in an array, for s = 0 nothing.                              *)
C18_JsonShape ==
    (/\ pc \in {"done", "crashed"}
     /\ args.json /\ Len(args.urls) > 1 /\ args.output = <<>>) =>
        LET s == Cardinality({u \in Positions : Succeeded(u)})
        IN  /\ s >= 2 =>
                  /\ Len(Stdout) = 1
                  /\ Stdout[1].kind = "json_array"
                  /\ Len(Stdout[1].items) = s
                  /\ StrictlyIncreasing([k \in 1..s |-> Stdout[1].items[k].url])
            /\ s = 1 =>
                  /\ Len(Stdout) = 1
                  /\ Stdout[1].kind = "result"
                  /\ Len(Stdout[1].items) = 1
            /\ s = 0 => Stdout = <<>>

====
